---------------------------- MODULE Spec2Model ----------------------------
(***************************************************************************)
(* Model of cplib's integration test runner tests/run_test_case.py:        *)
(*   compare_json          the recursive subset comparison of two decoded  *)
(*                         JSON documents,                                 *)
(*   run_simple_test       one command, stdout/stderr captured, compared,  *)
(*   run_interactive_test  an interactor (Judge) and a solution wired      *)
(*                         stdin<->stdout through two OS pipes.            *)
(* Spec      is the runner (both modes, processes and pipes included),     *)
(* FairSpec  is Spec with the scheduler's fairness,                        *)
(* SpecCmp   applies compare_json to pairs of documents.                   *)
(***************************************************************************)
EXTENDS Integers, Sequences, FiniteSets, TLC

VARIABLES
    cmpExpected,   \* compare_json: the argument `expected`
    cmpActual,     \* compare_json: the argument `actual`
    cmpResult,     \* compare_json: the returned (match, reason)
    mode,          \* args.mode: "simple" | "interactive" ("none" under SpecCmp)
    args,          \* the command line: which fixtures are requested, which commands exist
    pc,            \* the harness's position in run_simple_test / run_interactive_test
    procs,         \* the spawned processes: state and remaining program
    pipes,         \* the OS pipes: buffered bytes, holders of the read and write ends
    captured,      \* what the harness has read from each captured stream so far
    fixture,       \* expected_stdout / expected_stderr_json once read from their files
    actual_stderr_json,  \* json.loads of the captured stderr, once decoded
    did,           \* the comparison steps performed so far, in order
    printed,       \* "PASSED" / "FAILED" / "Error" once printed
    exit_code,     \* the status passed to sys.exit, -1 while running
    fs,            \* embed.py: the files that exist, each a sequence of lines
    stack,         \* embed.py: the active calls of process_file, the innermost last
    processed_files,  \* embed.py: the set `processed_files`
    reads,         \* embed.py: the files read by read_text, in order
    final_lines,   \* embed.py: what main writes to stdout
    epc            \* embed.py: "main" | "run" | "done" | "error" ("idle" elsewhere)

cmpVars == <<cmpExpected, cmpActual, cmpResult>>
embedVars == <<fs, stack, processed_files, reads, final_lines, epc>>
runVars == <<mode, args, pc, procs, pipes, captured, fixture, actual_stderr_json,
             did, printed, exit_code>>
vars == <<cmpExpected, cmpActual, cmpResult, embedVars, mode, args, pc, procs, pipes, captured,
          fixture, actual_stderr_json, did, printed, exit_code>>

(***************************************************************************)
(* Bounds of the model.                                                    *)
(***************************************************************************)
\* longest JSON array / longest list of a document
MaxLen == 2
\* capacity of an OS pipe, in bytes
Cap == 2

(***************************************************************************)
(* Decoded JSON documents, as json.load / json.loads return them.  A       *)
(* document is a record whose field t is the Python type name             *)
(* (type(x).__name__); a scalar carries s, its printed form str(x); a list *)
(* carries elems, the sequence of its elements; a dict carries items, the  *)
(* sequence of its (k, d) items in insertion order, keys unique.           *)
(* json.loads also accepts the literal NaN and returns float('nan').       *)
(***************************************************************************)
PyInt(s) == [t |-> "int", s |-> s]
PyStrVal(s) == [t |-> "str", s |-> s]
PyBool(s) == [t |-> "bool", s |-> s]
PyNone == [t |-> "NoneType", s |-> "None"]
PyNaN == [t |-> "float", s |-> "nan"]
PyList(elems) == [t |-> "list", elems |-> elems]
PyDict(items) == [t |-> "dict", items |-> items]
Item(key, doc) == [k |-> key, d |-> doc]

IsScalar(doc) == doc.t \notin {"dict", "list"}

\* The number a numeric scalar stands for (bool is a subclass of int in Python).
NumVal(doc) ==
    CASE doc.s = "0" -> 0
      [] doc.s = "1" -> 1
      [] doc.s = "100" -> 100
      [] doc.s = "False" -> 0
      [] doc.s = "True" -> 1
      [] OTHER -> -1

IsNumeric(doc) == doc.t \in {"int", "bool"} \/ (doc.t = "float" /\ doc.s # "nan")

\* A mutant of line 36: None on either side equals anything.
PyNe_NoneEqualsAll(expected, actual) ==
    ~ \/ (IsNumeric(expected) /\ IsNumeric(actual) /\ NumVal(expected) = NumVal(actual))
      \/ (expected.t = "str" /\ actual.t = "str" /\ expected.s = actual.s)
      \/ expected.t = "NoneType"
      \/ actual.t = "NoneType"

\* Python's `expected != actual` for a scalar expected (line 36): numbers compare by
\* value across int, float and bool; NaN differs from everything, itself included;
\* a str equals only the same str, None only None; a scalar never equals a list or
\* a dict.
PyNe(expected, actual) ==
    ~ \/ (IsNumeric(expected) /\ IsNumeric(actual) /\ NumVal(expected) = NumVal(actual))
      \/ (expected.t = "str" /\ actual.t = "str" /\ expected.s = actual.s)
      \/ (expected.t = "NoneType" /\ actual.t = "NoneType")

\* str(x) as the f-string of line 37 prints it: the printed form of a scalar (which
\* does not tell 1 from "1"), the repr of the whole container otherwise.
PyStr(doc) == IF IsScalar(doc) THEN [str |-> doc.s] ELSE [repr |-> doc]

\* `key in actual` and `actual[key]` for a dict.
HasKey(dict, key) == \E i \in 1..Len(dict.items) : dict.items[i].k = key
GetKey(dict, key) == dict.items[CHOOSE i \in 1..Len(dict.items) : dict.items[i].k = key].d

(***************************************************************************)
(* The reason string, kept as the sequence of its parts: each             *)
(* "Mismatch at key 'k': " / "Mismatch at index i: " prefix is one part,   *)
(* the innermost message is the last part.  "" is the empty sequence.      *)
(***************************************************************************)
Part(kind, x, y) ==
    CASE kind = "Mismatch at index" -> [kind |-> kind, index |-> x]
      [] kind = "List length mismatch" -> [kind |-> kind, expected_len |-> x, got_len |-> y]
      [] kind = "Value mismatch" -> [kind |-> kind, expected |-> x, got |-> y]
      [] OTHER -> [kind |-> kind, x |-> x, y |-> y]
Ok == [match |-> TRUE, reason |-> <<>>]
No(parts) == [match |-> FALSE, reason |-> parts]

RECURSIVE compare_json(_, _)
RECURSIVE compare_dict_items(_, _, _)
RECURSIVE compare_list_items(_, _, _)

\* A mutant of the dict loop: the items after i are compared before item i, so a
\* later mismatch is the one reported.
compare_dict_items_LaterFirst(expected, actual, i) ==
    IF i > Len(expected.items) THEN Ok
    ELSE LET key == expected.items[i].k
             value == expected.items[i].d
             rest == compare_dict_items(expected, actual, i + 1)
         IN  IF ~rest.match THEN rest
             ELSE IF ~HasKey(actual, key) THEN No(<<Part("Missing key", key, "")>>)
             ELSE LET r == compare_json(value, GetKey(actual, key))
                  IN  IF ~r.match
                      THEN No(<<Part("Mismatch at key", key, "")>> \o r.reason)
                      ELSE Ok

\* lines 17-22: the loop over expected.items(), from item i on.
compare_dict_items(expected, actual, i) ==
    IF i > Len(expected.items) THEN Ok
    ELSE LET key == expected.items[i].k
             value == expected.items[i].d
         IN  IF ~HasKey(actual, key) THEN No(<<Part("Missing key", key, "")>>)
             ELSE LET r == compare_json(value, GetKey(actual, key))
                  IN  IF ~r.match
                      THEN No(<<Part("Mismatch at key", key, "")>> \o r.reason)
                      ELSE compare_dict_items(expected, actual, i + 1)

\* lines 31-34: the loop over enumerate(expected), from element i on (1-based here,
\* the reported index is i - 1).
compare_list_items(expected, actual, i) ==
    IF i > Len(expected.elems) THEN Ok
    ELSE LET r == compare_json(expected.elems[i], actual.elems[i])
         IN  IF ~r.match
             THEN No(<<Part("Mismatch at index", i - 1, 0)>> \o r.reason)
             ELSE compare_list_items(expected, actual, i + 1)

\* A mutant of the list branch: the elements are compared before the lengths.
compare_list_ElementsFirst(expected, actual) ==
    LET n == IF Len(expected.elems) < Len(actual.elems) THEN Len(expected.elems) ELSE Len(actual.elems)
        r == compare_list_items(PyList(SubSeq(expected.elems, 1, n)), actual, 1)
    IN  IF ~r.match THEN r
        ELSE IF Len(expected.elems) # Len(actual.elems)
             THEN No(<<Part("List length mismatch", Len(expected.elems), Len(actual.elems))>>)
             ELSE Ok

\* lines 26-34: the length check, then the elements by position.
compare_list(expected, actual) ==
    IF Len(expected.elems) # Len(actual.elems)
    THEN No(<<Part("List length mismatch", Len(expected.elems), Len(actual.elems))>>)
    ELSE compare_list_items(expected, actual, 1)

\* lines 10-40.
compare_json(expected, actual) ==
    IF expected.t = "dict"
    THEN IF actual.t # "dict"
         THEN No(<<Part("Type mismatch", "dict", actual.t)>>)
         ELSE compare_dict_items(expected, actual, 1)
    ELSE IF expected.t = "list"
         THEN IF actual.t # "list"
              THEN No(<<Part("Type mismatch", "list", actual.t)>>)
              ELSE compare_list(expected, actual)
         ELSE IF PyNe(expected, actual)
              THEN No(<<Part("Value mismatch", PyStr(expected), PyStr(actual))>>)
              ELSE Ok


(***************************************************************************)
(* The documents compare_json is applied to under SpecCmp: the scalars,    *)
(* the lists and dicts of scalars, the lists and dicts of a few nested     *)
(* documents, and the verdict payloads of the end-to-end example.          *)
(***************************************************************************)
Scalars == {PyInt("1"), PyStrVal("1"), PyBool("True"), PyNone, PyNaN}
Keys == {"a", "b"}

SeqsUpTo(S, n) == UNION {[1..m -> S] : m \in 0..n}

\* key sequences without a repeated key: the key order of a decoded JSON object
KeySeqs == {ks \in SeqsUpTo(Keys, Cardinality(Keys)) :
                \A i, j \in 1..Len(ks) : ks[i] = ks[j] => i = j}

DictsOver(S) ==
    UNION {{PyDict([i \in 1..Len(ks) |-> Item(ks[i], vs[i])]) : vs \in [1..Len(ks) -> S]}
           : ks \in KeySeqs}

ListsOver(S) == {PyList(s) : s \in SeqsUpTo(S, MaxLen)}

Inner == {PyInt("1"),
          PyList(<<PyInt("1")>>),
          PyDict(<<Item("a", PyInt("1"))>>),
          PyDict(<<Item("a", PyInt("1")), Item("b", PyStrVal("1"))>>)}

ExpectedVerdict ==
    PyDict(<<Item("verdict", PyStrVal("OK")), Item("score", PyInt("100"))>>)
Examples ==
    {ExpectedVerdict,
     PyDict(<<Item("verdict", PyStrVal("OK")), Item("score", PyInt("100")),
              Item("extra", PyStrVal("debug"))>>),
     PyDict(<<Item("verdict", PyStrVal("WA")), Item("score", PyInt("0"))>>)}

Docs == Scalars \cup ListsOver(Scalars) \cup DictsOver(Scalars)
        \cup ListsOver(Inner) \cup DictsOver(Inner) \cup Examples

NoDoc == [t |-> "none", s |-> ""]
NotCalled == [match |-> FALSE, reason |-> <<Part("not called", "", "")>>]
Called == cmpResult # NotCalled


(***************************************************************************)
(* SpecCmp: compare_json applied to every pair of documents.               *)
(***************************************************************************)
EmbedIdle ==
    /\ fs = <<>>
    /\ stack = <<>>
    /\ processed_files = {}
    /\ reads = <<>>
    /\ final_lines = <<>>
    /\ epc = "idle"

RunIdle ==
    /\ mode = "none"
    /\ args = <<>>
    /\ pc = "idle"
    /\ procs = <<>>
    /\ pipes = <<>>
    /\ captured = <<>>
    /\ fixture = <<>>
    /\ actual_stderr_json = NoDoc
    /\ did = <<>>
    /\ printed = <<>>
    /\ exit_code = -1

InitCmp ==
    /\ cmpExpected \in Docs
    /\ cmpActual = NoDoc
    /\ cmpResult = NotCalled
    /\ RunIdle
    /\ EmbedIdle

\* match, reason = compare_json(expected, actual)
CallCompareJson(actual) ==
    /\ mode = "none"
    /\ cmpResult = NotCalled
    /\ cmpActual' = actual
    /\ cmpResult' = compare_json(cmpExpected, actual)
    /\ UNCHANGED <<cmpExpected, runVars, embedVars>>

NextCmp == \E actual \in Docs : CallCompareJson(actual)

SpecCmp == InitCmp /\ [][NextCmp]_vars

(***************************************************************************)
(* Reference notions the claims about compare_json are stated with.        *)
(***************************************************************************)
Min(a, b) == IF a < b THEN a ELSE b
Last(s) == s[Len(s)]

\* The i-th child of a container, in its own order.
ChildOf(doc, i) == IF doc.t = "dict" THEN doc.items[i].d ELSE doc.elems[i]

\* The number of children of a container.
Size(doc) == IF doc.t = "dict" THEN Len(doc.items) ELSE Len(doc.elems)

\* The JSON variant a scalar belongs to.
VariantOf(doc) ==
    CASE doc.t \in {"int", "float"} -> "number"
      [] doc.t = "str" -> "string"
      [] doc.t = "bool" -> "bool"
      [] doc.t = "NoneType" -> "null"
      [] OTHER -> doc.t

\* actual is expected with extra mapping keys (of any value) inserted at any depth.
RECURSIVE ExtraKeysInserted(_, _)
ExtraKeysInserted(expected, actual) ==
    IF expected.t = "dict"
    THEN /\ actual.t = "dict"
         /\ \A i \in 1..Len(expected.items) :
                /\ HasKey(actual, expected.items[i].k)
                /\ ExtraKeysInserted(expected.items[i].d, GetKey(actual, expected.items[i].k))
    ELSE IF expected.t = "list"
         THEN /\ actual.t = "list"
              /\ Len(actual.elems) = Len(expected.elems)
              /\ \A i \in 1..Len(expected.elems) : ExtraKeysInserted(expected.elems[i], actual.elems[i])
         ELSE actual = expected

\* Some key of a mapping of expected is absent from the corresponding mapping of
\* actual.
RECURSIVE KeyAbsent(_, _)
KeyAbsent(expected, actual) ==
    IF expected.t = "dict" /\ actual.t = "dict"
    THEN \E i \in 1..Len(expected.items) :
            \/ ~HasKey(actual, expected.items[i].k)
            \/ /\ HasKey(actual, expected.items[i].k)
               /\ KeyAbsent(expected.items[i].d, GetKey(actual, expected.items[i].k))
    ELSE IF expected.t = "list" /\ actual.t = "list"
         THEN \E i \in 1..Min(Len(expected.elems), Len(actual.elems)) :
                 KeyAbsent(expected.elems[i], actual.elems[i])
         ELSE FALSE

\* The subset relation of the comparator, stated without an order of evaluation.
RECURSIVE Matches(_, _)
Matches(expected, actual) ==
    IF expected.t = "dict"
    THEN /\ actual.t = "dict"
         /\ \A i \in 1..Len(expected.items) :
                /\ HasKey(actual, expected.items[i].k)
                /\ Matches(expected.items[i].d, GetKey(actual, expected.items[i].k))
    ELSE IF expected.t = "list"
         THEN /\ actual.t = "list"
              /\ Len(actual.elems) = Len(expected.elems)
              /\ \A i \in 1..Len(expected.elems) : Matches(expected.elems[i], actual.elems[i])
         ELSE ~PyNe(expected, actual)

\* Every mismatch between expected and actual, each as the path of positions in
\* expected that leads to it (a missing key is a mismatch at that key's position).
RECURSIVE Mismatches(_, _)
Mismatches(expected, actual) ==
    IF IsScalar(expected)
    THEN IF PyNe(expected, actual) THEN {<<>>} ELSE {}
    ELSE IF actual.t # expected.t THEN {<<>>}
    ELSE IF expected.t = "list" /\ Len(expected.elems) # Len(actual.elems) THEN {<<>>}
    ELSE UNION {IF expected.t = "dict" /\ ~HasKey(actual, expected.items[i].k)
                THEN {<<i>>}
                ELSE {<<i>> \o p :
                        p \in Mismatches(ChildOf(expected, i),
                                         IF expected.t = "dict"
                                         THEN GetKey(actual, expected.items[i].k)
                                         ELSE actual.elems[i])}
                : i \in 1..Size(expected)}

\* p comes before q in the traversal of expected: keys in expected's order, elements
\* by ascending index, depth first.
Before(p, q) ==
    \E j \in 1..Min(Len(p), Len(q)) :
        /\ \A h \in 1..(j - 1) : p[h] = q[h]
        /\ p[j] < q[j]

FirstMismatch(expected, actual) ==
    CHOOSE p \in Mismatches(expected, actual) :
        \A q \in Mismatches(expected, actual) \ {p} : Before(p, q)

\* What the report of the mismatch at path p reads, part by part.
RECURSIVE ReportAt(_, _, _)
ReportAt(expected, actual, p) ==
    IF p = <<>>
    THEN IF IsScalar(expected)
         THEN <<Part("Value mismatch", PyStr(expected), PyStr(actual))>>
         ELSE IF actual.t # expected.t
              THEN <<Part("Type mismatch", expected.t, actual.t)>>
              ELSE <<Part("List length mismatch", Len(expected.elems), Len(actual.elems))>>
    ELSE IF expected.t = "dict"
         THEN IF ~HasKey(actual, expected.items[p[1]].k)
              THEN <<Part("Missing key", expected.items[p[1]].k, "")>>
              ELSE <<Part("Mismatch at key", expected.items[p[1]].k, "")>>
                   \o ReportAt(expected.items[p[1]].d, GetKey(actual, expected.items[p[1]].k),
                               Tail(p))
         ELSE <<Part("Mismatch at index", p[1] - 1, 0)>>
              \o ReportAt(expected.elems[p[1]], actual.elems[p[1]], Tail(p))

\* The pair of values that path p leads to in expected and in actual.
RECURSIVE ValuesAt(_, _, _)
ValuesAt(expected, actual, p) ==
    IF p = <<>> THEN [e |-> expected, a |-> actual]
    ELSE ValuesAt(ChildOf(expected, p[1]),
                  IF expected.t = "dict" THEN GetKey(actual, expected.items[p[1]].k)
                  ELSE actual.elems[p[1]],
                  Tail(p))

(***************************************************************************)
(* Claims about compare_json, checked under SpecCmp.                       *)
(***************************************************************************)

\* C5: if actual is expected with extra mapping keys inserted at any depth,
\* compare_json succeeds; and compare_json fails whenever a key of a mapping of
\* expected is absent from the corresponding mapping of actual.
C5_SubsetSemantics ==
    Called =>
        /\ ExtraKeysInserted(cmpExpected, cmpActual) => cmpResult.match
        /\ KeyAbsent(cmpExpected, cmpActual) => ~cmpResult.match

\* C6: with a scalar expected, compare_json succeeds if and only if actual is a
\* scalar of the same variant (string, number, bool, null) with the same value;
\* number 1 does not match bool true nor string "1".
C6_TypeAwareScalarEquality ==
    (Called /\ IsScalar(cmpExpected)) =>
        (cmpResult.match <=>
            /\ IsScalar(cmpActual)
            /\ VariantOf(cmpActual) = VariantOf(cmpExpected)
            /\ IF VariantOf(cmpExpected) = "number"
               THEN /\ IsNumeric(cmpExpected) /\ IsNumeric(cmpActual)
                    /\ NumVal(cmpExpected) = NumVal(cmpActual)
               ELSE cmpActual.s = cmpExpected.s)

\* C8 as claimed: a failing compare_json reports the first mismatch in the traversal
\* order of expected, the full path to it, and the expected and the actual value at
\* that path.
C8_ReportsValuesAtPath ==
    (Called /\ ~cmpResult.match) =>
        LET p == FirstMismatch(cmpExpected, cmpActual)
            r == cmpResult.reason
        IN  /\ Len(r) = Len(p) + 1
            /\ SubSeq(r, 1, Len(p)) = SubSeq(ReportAt(cmpExpected, cmpActual, p), 1, Len(p))
            /\ Last(r).kind = "Value mismatch"
            /\ Last(r).expected = PyStr(ValuesAt(cmpExpected, cmpActual, p).e)
            /\ Last(r).got = PyStr(ValuesAt(cmpExpected, cmpActual, p).a)

\* C8 as amended: compare_json succeeds exactly when there is no mismatch; when it
\* fails it reports exactly the first mismatch in the traversal order of expected
\* (keys in expected's order, elements by ascending index) with the full path of
\* keys and indices to it, and at that path: the printed expected and actual values
\* of a scalar mismatch, the expected container type and the type name of actual of
\* a type mismatch, the two lengths of a list length mismatch, the key of a missing
\* key.
C8_FirstMismatchReported ==
    Called =>
        IF Mismatches(cmpExpected, cmpActual) = {}
        THEN cmpResult = Ok
        ELSE cmpResult = No(ReportAt(cmpExpected, cmpActual,
                                     FirstMismatch(cmpExpected, cmpActual)))

\* C8 witness: the end-to-end example; verdict and score both differ, and only the
\* first, verdict, is reported with expected OK and actual WA.
C8_Witness ==
    /\ Called
    /\ cmpExpected = ExpectedVerdict
    /\ Cardinality(Mismatches(cmpExpected, cmpActual)) = 2
    /\ cmpResult = No(<<Part("Mismatch at key", "verdict", ""),
                        Part("Value mismatch", [str |-> "OK"], [str |-> "WA"])>>)

\* C9: two sequences of different lengths fail with the length mismatch, whatever
\* their elements (also when an element at a common index differs); sequences of
\* equal length match exactly when their elements match position by position.
C9_LengthBeforeElements ==
    (Called /\ cmpExpected.t = "list" /\ cmpActual.t = "list") =>
        IF Len(cmpExpected.elems) # Len(cmpActual.elems)
        THEN cmpResult = No(<<Part("List length mismatch",
                                   Len(cmpExpected.elems), Len(cmpActual.elems))>>)
        ELSE cmpResult.match <=>
                \A i \in 1..Len(cmpExpected.elems) : Matches(cmpExpected.elems[i], cmpActual.elems[i])

\* C9 witness: lengths differ and the elements at index 0 differ too.
C9_Witness ==
    /\ Called
    /\ cmpExpected.t = "list" /\ cmpActual.t = "list"
    /\ Len(cmpExpected.elems) # Len(cmpActual.elems)
    /\ Len(cmpExpected.elems) > 0 /\ Len(cmpActual.elems) > 0
    /\ ~Matches(cmpExpected.elems[1], cmpActual.elems[1])
    /\ ~cmpResult.match

\* C10: every document matches itself.
C10_Reflexive ==
    (Called /\ cmpActual = cmpExpected) => cmpResult.match

(***************************************************************************)
(* The runner.  Streams carry bytes, written one at a time by the          *)
(* processes.  A JSON text is kept as its sequence of tokens: "{", member  *)
(* tokens, "}" for an object, one scalar token for a scalar.               *)
(***************************************************************************)
Bytes(c, n) == [i \in 1..n |-> c]

T_OK == <<"{", "verdict:OK", "}">>
T_WA == <<"{", "verdict:WA", "}">>
T_Extra == <<"{", "verdict:OK", "extra:debug", "}">>
T_Truncated == <<"{", "verdict:OK">>
T_NaN == <<"NaN">>

MemberTokens == {"verdict:OK", "verdict:WA", "extra:debug"}
ScalarTokens == {"NaN", "1", "true"}

MemberOf(tok) ==
    CASE tok = "verdict:OK" -> Item("verdict", PyStrVal("OK"))
      [] tok = "verdict:WA" -> Item("verdict", PyStrVal("WA"))
      [] OTHER -> Item("extra", PyStrVal("debug"))

ScalarOf(tok) ==
    CASE tok = "NaN" -> PyNaN
      [] tok = "1" -> PyInt("1")
      [] OTHER -> PyBool("True")

\* d[k] = v on a dict kept as its item sequence: an existing key keeps its place.
RECURSIVE DictFrom(_, _)
DictFrom(items, toks) ==
    IF toks = <<>> THEN items
    ELSE LET it == MemberOf(Head(toks))
             at == {i \in 1..Len(items) : items[i].k = it.k}
         IN  DictFrom(IF at = {} THEN Append(items, it)
                      ELSE [i \in 1..Len(items) |-> IF i \in at THEN it ELSE items[i]],
                      Tail(toks))

\* json.loads / json.load: the decoded document, or JSONDecodeError (ok = FALSE) for
\* a text that is not one complete JSON value.
json_loads(text) ==
    IF /\ Len(text) >= 2
       /\ text[1] = "{"
       /\ text[Len(text)] = "}"
       /\ \A i \in 2..(Len(text) - 1) : text[i] \in MemberTokens
    THEN [ok |-> TRUE, doc |-> PyDict(DictFrom(<<>>, SubSeq(text, 2, Len(text) - 1)))]
    ELSE IF Len(text) = 1 /\ text[1] \in ScalarTokens
         THEN [ok |-> TRUE, doc |-> ScalarOf(text[1])]
         ELSE [ok |-> FALSE, doc |-> NoDoc]

(***************************************************************************)
(* Processes under test.  A program is a sequence of instructions          *)
(*   out  write data to stdout,       err    write data to stderr,         *)
(*   in   read one byte of stdin,     drain  read stdin to end-of-stream,  *)
(*   echo read stdin to end-of-stream, writing each byte read to stdout    *)
(* and the process exits at the end of its program.                        *)
(***************************************************************************)
Out(data) == [op |-> "out", data |-> data]
Err(data) == [op |-> "err", data |-> data]
In == [op |-> "in", data |-> <<>>]
Drain == [op |-> "drain", data |-> <<>>]
Echo == [op |-> "echo", data |-> <<>>]

\* a program without its writes of nothing
Norm(prog) == SelectSeq(prog, LAMBDA i : ~(i.op \in {"out", "err"} /\ i.data = <<>>))

Cmd(kind, n, out, err) == [found |-> TRUE, kind |-> kind, n |-> n, out |-> out, err |-> err]
NotFound == [found |-> FALSE, kind |-> "quit", n |-> 0, out |-> <<>>, err |-> <<>>]

Program(cmd) ==
    CASE cmd.kind = "writer" -> Norm(<<Out(Bytes("q", cmd.n)), Err(cmd.err)>>)
      [] cmd.kind = "asker" -> Norm(<<Out(<<"q">>), In, Err(cmd.err)>>)
      [] cmd.kind = "drainer" -> Norm(<<Drain, Err(cmd.err)>>)
      [] cmd.kind = "echo" -> <<Echo>>
      [] cmd.kind = "noisy" -> Norm(<<Err(Bytes("x", cmd.n)), In, Out(<<"a">>)>>)
      [] cmd.kind = "print" -> Norm(<<Out(cmd.out), Err(cmd.err)>>)
      [] cmd.kind = "cat" -> Norm(<<Drain, Out(cmd.out), Err(cmd.err)>>)
      [] OTHER -> <<>>

\* the most bytes a Judge writes to its stdout: past what both pipes and the
\* Solution's hand hold together
MaxN == 2 * Cap + 2
\* the most bytes a Solution writes to its stderr: one more than a pipe holds
MaxK == Cap + 1

Names == {"interactor", "solution", "command", "t_sol", "t_judge"}
PipeNames == {"stdin", "stdout", "stderr", "sol_stderr"}

\* The pipe behind each standard stream of a process: the interactor (like the
\* command of simple mode) has the three pipes of its Popen; the solution reads the
\* interactor's stdout pipe and writes the interactor's stdin pipe.  "inherited" is
\* the runner's own stdin, at end-of-stream.  In run.py the pipes are those of
\* t_sol.p, the Judge on their other ends with its stderr piped, the Solution's
\* stderr on DEVNULL.
Fd(p) ==
    IF p = "solution"
    THEN [in |-> "stdout", out |-> "stdin", err |-> "sol_stderr"]
    ELSE IF p = "t_judge"
    THEN [in |-> "stdout", out |-> "stdin", err |-> "stderr"]
    ELSE IF p = "t_sol"
    THEN [in |-> "stdin", out |-> "stdout", err |-> "devnull"]
    ELSE [in |-> IF p = "command" /\ args.stdin_path = "none" THEN "inherited" ELSE "stdin",
          out |-> "stdout", err |-> "stderr"]

NoPipe == [buf |-> <<>>, r |-> {}, w |-> {}]
\* returncode: the exit status of an exited process, -13 for one ended by SIGPIPE
NoProc == [st |-> "none", prog |-> <<>>, nread |-> 0, eof |-> FALSE, returncode |-> 0]

Running(p) == procs[p].st = "running"
Exited(p) == procs[p].st = "exited"
Spawned(p) == procs[p].st # "none"

\* every descriptor `who` holds is closed
CloseAll(ps, who) == [n \in PipeNames |-> [ps[n] EXCEPT !.r = @ \ {who}, !.w = @ \ {who}]]

Wants(p) ==
    IF procs[p].prog = <<>> THEN "exit"
    ELSE LET i == Head(procs[p].prog)
         IN  IF i.op \in {"out", "err"} \/ (i.op = "echo" /\ i.data # <<>>)
             THEN "write" ELSE "read"

Target(p) == IF Head(procs[p].prog).op = "err" THEN Fd(p).err ELSE Fd(p).out

\* the program once the byte at its head is written (or dropped)
AfterWrite(prog) ==
    LET i == Head(prog)
    IN  IF i.op = "echo" THEN <<Echo>> \o Tail(prog)
        ELSE IF Len(i.data) = 1 THEN Tail(prog)
        ELSE <<[i EXCEPT !.data = Tail(@)]>> \o Tail(prog)

\* write(2) of one byte: blocks while the pipe is full
ProcWrite(p) ==
    /\ Running(p) /\ Wants(p) = "write"
    /\ pipes[Target(p)].r # {}
    /\ Len(pipes[Target(p)].buf) < Cap
    /\ pipes' = [pipes EXCEPT ![Target(p)].buf = Append(@, Head(Head(procs[p].prog).data))]
    /\ procs' = [procs EXCEPT ![p].prog = AfterWrite(@)]
    /\ UNCHANGED <<cmpVars, embedVars, mode, args, pc, captured, fixture, actual_stderr_json, did,
                   printed, exit_code>>

\* write(2) on a pipe nobody reads: SIGPIPE ends the process ...
ProcSigpipe(p) ==
    /\ Running(p) /\ Wants(p) = "write"
    /\ pipes[Target(p)].r = {}
    /\ procs' = [procs EXCEPT ![p].st = "exited", ![p].prog = <<>>, ![p].returncode = -13]
    /\ pipes' = CloseAll(pipes, p)
    /\ UNCHANGED <<cmpVars, embedVars, mode, args, pc, captured, fixture, actual_stderr_json, did,
                   printed, exit_code>>

\* ... or, with SIGPIPE ignored, the write fails with EPIPE and the process goes on
ProcEpipe(p) ==
    /\ Running(p) /\ Wants(p) = "write"
    /\ pipes[Target(p)].r = {}
    /\ procs' = [procs EXCEPT ![p].prog = AfterWrite(@)]
    /\ UNCHANGED <<cmpVars, embedVars, mode, args, pc, pipes, captured, fixture, actual_stderr_json,
                   did, printed, exit_code>>

\* read(2) of one byte: blocks while the pipe is empty and has a writer
ProcRead(p) ==
    /\ Running(p) /\ Wants(p) = "read"
    /\ Fd(p).in # "inherited"
    /\ pipes[Fd(p).in].buf # <<>>
    /\ pipes' = [pipes EXCEPT ![Fd(p).in].buf = Tail(@)]
    /\ procs' = [procs EXCEPT
                    ![p].nread = @ + 1,
                    ![p].prog = LET i == Head(@)
                                IN  CASE i.op = "in" -> Tail(@)
                                      [] i.op = "drain" -> @
                                      [] OTHER -> <<[i EXCEPT !.data =
                                                        <<Head(pipes[Fd(p).in].buf)>>]>>
                                                  \o Tail(@)]
    /\ UNCHANGED <<cmpVars, embedVars, mode, args, pc, captured, fixture, actual_stderr_json, did,
                   printed, exit_code>>

\* read(2) returns end-of-stream: the pipe is empty and no write end is open
ProcReadEOF(p) ==
    /\ Running(p) /\ Wants(p) = "read"
    /\ IF Fd(p).in = "inherited" THEN TRUE
       ELSE pipes[Fd(p).in].buf = <<>> /\ pipes[Fd(p).in].w = {}
    /\ procs' = [procs EXCEPT ![p].eof = TRUE, ![p].prog = Tail(@)]
    /\ UNCHANGED <<cmpVars, embedVars, mode, args, pc, pipes, captured, fixture, actual_stderr_json,
                   did, printed, exit_code>>

\* the exit statuses a program under test ends with
ExitCodes == {0, 1}

\* exit with some status: every descriptor of the process is closed
ProcExit(p) ==
    /\ Running(p) /\ Wants(p) = "exit"
    /\ \E c \in ExitCodes : procs' = [procs EXCEPT ![p].st = "exited", ![p].returncode = c]
    /\ pipes' = CloseAll(pipes, p)
    /\ UNCHANGED <<cmpVars, embedVars, mode, args, pc, captured, fixture, actual_stderr_json, did,
                   printed, exit_code>>

ProcNext(p) ==
    \/ ProcWrite(p)
    \/ ProcSigpipe(p)
    \/ ProcEpipe(p)
    \/ ProcRead(p)
    \/ ProcReadEOF(p)
    \/ ProcExit(p)

(***************************************************************************)
(* The harness.                                                            *)
(***************************************************************************)
File(text) == [exists |-> TRUE, text |-> text]
Missing == [exists |-> FALSE, text |-> <<>>]

StdoutTexts == {<<>>, <<"5">>, <<"5", "\n">>, <<"0", "5", "\n">>}
StderrTexts == {T_OK, T_Extra, T_Truncated}
StdoutFiles == {Missing} \cup {File(s) : s \in StdoutTexts}
JsonFiles == {Missing, File(T_OK), File(T_WA), File(T_Truncated), File(T_NaN)}

\* the process the first communicate() of the run waits for
P1 == IF mode = "simple" THEN "command" ELSE "interactor"

Holds(who, n, end) == who \in pipes[n][end]

\* sys.exit(code) after printing msg: the harness's descriptors are closed with it
Exit(code, msg) ==
    /\ pc' = "exited"
    /\ exit_code' = code
    /\ printed' = Append(printed, msg)
    /\ pipes' = CloseAll(pipes, "harness")

Start(p, cmd) == [procs EXCEPT ![p] = [st |-> "running", prog |-> Program(cmd),
                                       nread |-> 0, eof |-> FALSE, returncode |-> 0]]

\* A mutant of the first Popen: the harness keeps a write end of the interactor's
\* stdout pipe.
PopenInteractor_KeepsWriteEnd ==
    /\ mode = "interactive" /\ pc = "Popen_interactor"
    /\ args.command.found
    /\ procs' = Start("interactor", args.command)
    /\ pipes' = [pipes EXCEPT
                    !["stdin"] = [buf |-> <<>>, r |-> {"interactor"}, w |-> {"harness"}],
                    !["stdout"] = [buf |-> <<>>, r |-> {"harness"},
                                   w |-> {"interactor", "harness"}],
                    !["stderr"] = [buf |-> <<>>, r |-> {"harness"}, w |-> {"interactor"}]]
    /\ pc' = "Popen_solution"
    /\ UNCHANGED <<cmpVars, embedVars, mode, args, captured, fixture, actual_stderr_json, did,
                   printed, exit_code>>

\* lines 134-141: the interactor, its three streams piped to the harness
PopenInteractor ==
    /\ mode = "interactive" /\ pc = "Popen_interactor"
    /\ args.command.found
    /\ procs' = Start("interactor", args.command)
    /\ pipes' = [pipes EXCEPT
                    !["stdin"] = [buf |-> <<>>, r |-> {"interactor"}, w |-> {"harness"}],
                    !["stdout"] = [buf |-> <<>>, r |-> {"harness"}, w |-> {"interactor"}],
                    !["stderr"] = [buf |-> <<>>, r |-> {"harness"}, w |-> {"interactor"}]]
    /\ pc' = "Popen_solution"
    /\ UNCHANGED <<cmpVars, embedVars, mode, args, captured, fixture, actual_stderr_json, did,
                   printed, exit_code>>

\* lines 134, 163-165: FileNotFoundError from the first Popen
PopenInteractorNotFound ==
    /\ mode = "interactive" /\ pc = "Popen_interactor"
    /\ ~args.command.found
    /\ Exit(1, "Error executing command")
    /\ UNCHANGED <<cmpVars, embedVars, mode, args, procs, captured, fixture, actual_stderr_json, did>>

\* lines 146-153: the solution, stdin from the interactor's stdout pipe, stdout into
\* the interactor's stdin pipe, stderr piped to the harness
PopenSolution ==
    /\ mode = "interactive" /\ pc = "Popen_solution"
    /\ args.solution_cmd.found
    /\ procs' = Start("solution", args.solution_cmd)
    /\ pipes' = [pipes EXCEPT
                    !["stdout"].r = @ \cup {"solution"},
                    !["stdin"].w = @ \cup {"solution"},
                    !["sol_stderr"] = [buf |-> <<>>, r |-> {"harness"}, w |-> {"solution"}]]
    /\ pc' = "close_stdout"
    /\ UNCHANGED <<cmpVars, embedVars, mode, args, captured, fixture, actual_stderr_json, did,
                   printed, exit_code>>

\* lines 146, 163-165: FileNotFoundError from the second Popen; the interactor is
\* neither killed nor waited for
PopenSolutionNotFound ==
    /\ mode = "interactive" /\ pc = "Popen_solution"
    /\ ~args.solution_cmd.found
    /\ Exit(1, "Error executing command")
    /\ UNCHANGED <<cmpVars, embedVars, mode, args, procs, captured, fixture, actual_stderr_json, did>>

\* A mutant of line 156: the harness keeps its read end of the interactor's stdout.
CloseInteractorStdout_KeepsReadEnd ==
    /\ mode = "interactive" /\ pc = "close_stdout"
    /\ pc' = "communicate"
    /\ UNCHANGED <<cmpVars, embedVars, mode, args, procs, pipes, captured, fixture,
                   actual_stderr_json, did, printed, exit_code>>

\* line 156: p_interactor.stdout.close()
CloseInteractorStdout ==
    /\ mode = "interactive" /\ pc = "close_stdout"
    /\ pipes' = [pipes EXCEPT !["stdout"].r = @ \ {"harness"}]
    /\ pc' = "communicate"
    /\ UNCHANGED <<cmpVars, embedVars, mode, args, procs, captured, fixture, actual_stderr_json, did,
                   printed, exit_code>>

(***************************************************************************)
(* Popen.communicate(input) of the first process (line 57 through          *)
(* subprocess.run, line 160): stdin is flushed, and closed at once when    *)
(* there is no input; then a select loop feeds the input and reads every   *)
(* open captured stream to end-of-stream; then the process is waited for.  *)
(***************************************************************************)
\* A mutant of the start of communicate(): stdin is left open.
CommunicateBegin_KeepsStdin ==
    /\ pc = "communicate"
    /\ pc' = "select"
    /\ UNCHANGED <<cmpVars, embedVars, mode, args, procs, pipes, captured, fixture,
                   actual_stderr_json, did, printed, exit_code>>

CommunicateBegin ==
    /\ pc = "communicate"
    /\ pipes' = IF captured.input = <<>>
                THEN [pipes EXCEPT !["stdin"].w = @ \ {"harness"}]
                ELSE pipes
    /\ pc' = "select"
    /\ UNCHANGED <<cmpVars, embedVars, mode, args, procs, captured, fixture, actual_stderr_json, did,
                   printed, exit_code>>

\* os.write of the input that fits; stdin is closed once all of it is written
SelectWrite ==
    /\ pc = "select"
    /\ Holds("harness", "stdin", "w") /\ captured.input # <<>>
    /\ pipes["stdin"].r # {}
    /\ Len(pipes["stdin"].buf) < Cap
    /\ LET k == Min(Cap - Len(pipes["stdin"].buf), Len(captured.input))
           rest == SubSeq(captured.input, k + 1, Len(captured.input))
       IN  /\ captured' = [captured EXCEPT !.input = rest]
           /\ pipes' = [pipes EXCEPT
                           !["stdin"].buf = @ \o SubSeq(captured.input, 1, k),
                           !["stdin"].w = IF rest = <<>> THEN @ \ {"harness"} ELSE @]
    /\ UNCHANGED <<cmpVars, embedVars, mode, args, pc, procs, fixture, actual_stderr_json, did,
                   printed, exit_code>>

\* BrokenPipeError while feeding: ignored, stdin is closed
SelectWriteBroken ==
    /\ pc = "select"
    /\ Holds("harness", "stdin", "w") /\ captured.input # <<>>
    /\ pipes["stdin"].r = {}
    /\ pipes' = [pipes EXCEPT !["stdin"].w = @ \ {"harness"}]
    /\ UNCHANGED <<cmpVars, embedVars, mode, args, pc, procs, captured, fixture, actual_stderr_json,
                   did, printed, exit_code>>

\* os.read of what a captured stream holds
SelectRead(n) ==
    /\ pc = "select"
    /\ Holds("harness", n, "r") /\ pipes[n].buf # <<>>
    /\ captured' = [captured EXCEPT ![n] = @ \o pipes[n].buf]
    /\ pipes' = [pipes EXCEPT ![n].buf = <<>>]
    /\ UNCHANGED <<cmpVars, embedVars, mode, args, pc, procs, fixture, actual_stderr_json, did,
                   printed, exit_code>>

\* os.read returns nothing: end-of-stream, the stream is closed
SelectEOF(n) ==
    /\ pc = "select"
    /\ Holds("harness", n, "r") /\ pipes[n].buf = <<>> /\ pipes[n].w = {}
    /\ pipes' = [pipes EXCEPT ![n].r = @ \ {"harness"}]
    /\ UNCHANGED <<cmpVars, embedVars, mode, args, pc, procs, captured, fixture, actual_stderr_json,
                   did, printed, exit_code>>

\* the select loop ends when no stream is registered any more
SelectDone ==
    /\ pc = "select"
    /\ ~Holds("harness", "stdin", "w")
    /\ ~Holds("harness", "stdout", "r")
    /\ ~Holds("harness", "stderr", "r")
    /\ pc' = "wait"
    /\ UNCHANGED <<cmpVars, embedVars, mode, args, procs, pipes, captured, fixture,
                   actual_stderr_json, did, printed, exit_code>>

\* A mutant of the statement after line 160: line 161 is skipped.
AfterInteractorCommunicate_SkipsSolution == "check_stderr"

\* the statement after p_interactor.communicate(): line 161
AfterInteractorCommunicate == "communicate_solution"

\* A mutant of the wait: a non-zero exit status fails the run (check=True).
Wait_ChecksReturncode ==
    /\ pc = "wait"
    /\ Exited(P1)
    /\ IF procs[P1].returncode # 0
       THEN Exit(1, "FAILED: Command returned non-zero exit status.")
       ELSE /\ pc' = IF mode = "simple" THEN "check_stdout" ELSE AfterInteractorCommunicate
            /\ UNCHANGED <<pipes, printed, exit_code>>
    /\ UNCHANGED <<cmpVars, embedVars, mode, args, procs, captured, fixture, actual_stderr_json, did>>

\* self.wait(): communicate() returns once the process has exited
Wait ==
    /\ pc = "wait"
    /\ Exited(P1)
    /\ pc' = IF mode = "simple" THEN "check_stdout" ELSE AfterInteractorCommunicate
    /\ UNCHANGED <<cmpVars, embedVars, mode, args, procs, pipes, captured, fixture,
                   actual_stderr_json, did, printed, exit_code>>

(***************************************************************************)
(* line 161, p_solution.communicate(): the only pipe of p_solution is its  *)
(* stderr, which is read to end-of-stream; then the process is waited for. *)
(***************************************************************************)
SolutionRead ==
    /\ pc = "communicate_solution"
    /\ pipes["sol_stderr"].buf # <<>>
    /\ captured' = [captured EXCEPT !["sol_stderr"] = @ \o pipes["sol_stderr"].buf]
    /\ pipes' = [pipes EXCEPT !["sol_stderr"].buf = <<>>]
    /\ UNCHANGED <<cmpVars, embedVars, mode, args, pc, procs, fixture, actual_stderr_json, did,
                   printed, exit_code>>

SolutionEOF ==
    /\ pc = "communicate_solution"
    /\ pipes["sol_stderr"].buf = <<>> /\ pipes["sol_stderr"].w = {}
    /\ pipes' = [pipes EXCEPT !["sol_stderr"].r = @ \ {"harness"}]
    /\ pc' = "solution_wait"
    /\ UNCHANGED <<cmpVars, embedVars, mode, args, procs, captured, fixture, actual_stderr_json, did,
                   printed, exit_code>>

SolutionWait ==
    /\ pc = "solution_wait"
    /\ Exited("solution")
    /\ pc' = "check_stderr"
    /\ UNCHANGED <<cmpVars, embedVars, mode, args, procs, pipes, captured, fixture,
                   actual_stderr_json, did, printed, exit_code>>

(***************************************************************************)
(* run_simple_test up to the end of subprocess.run.                        *)
(***************************************************************************)
\* lines 47-51: stdin_content is the file's content, or None without --stdin
OpenStdin ==
    /\ mode = "simple" /\ pc = "open_stdin"
    /\ args.stdin_path # "missing"
    /\ captured' = [captured EXCEPT !.input = IF args.stdin_path = "file"
                                              THEN args.stdin_content ELSE <<>>]
    /\ pc' = "run"
    /\ UNCHANGED <<cmpVars, embedVars, mode, args, procs, pipes, fixture, actual_stderr_json, did,
                   printed, exit_code>>

\* lines 52-54
OpenStdinNotFound ==
    /\ mode = "simple" /\ pc = "open_stdin"
    /\ args.stdin_path = "missing"
    /\ Exit(1, "Error: Stdin file not found")
    /\ UNCHANGED <<cmpVars, embedVars, mode, args, procs, captured, fixture, actual_stderr_json, did>>

\* lines 57-63: subprocess.run spawns the command, stdout and stderr piped, stdin
\* piped when there is input, and calls communicate(input)
Run ==
    /\ mode = "simple" /\ pc = "run"
    /\ args.command.found
    /\ procs' = Start("command", args.command)
    /\ pipes' = [pipes EXCEPT
                    !["stdin"] = IF args.stdin_path = "file"
                                 THEN [buf |-> <<>>, r |-> {"command"}, w |-> {"harness"}]
                                 ELSE @,
                    !["stdout"] = [buf |-> <<>>, r |-> {"harness"}, w |-> {"command"}],
                    !["stderr"] = [buf |-> <<>>, r |-> {"harness"}, w |-> {"command"}]]
    /\ pc' = "communicate"
    /\ UNCHANGED <<cmpVars, embedVars, mode, args, captured, fixture, actual_stderr_json, did,
                   printed, exit_code>>

\* lines 64-66
RunNotFound ==
    /\ mode = "simple" /\ pc = "run"
    /\ ~args.command.found
    /\ Exit(1, "Error: Command not found")
    /\ UNCHANGED <<cmpVars, embedVars, mode, args, procs, captured, fixture, actual_stderr_json, did>>

(***************************************************************************)
(* The comparisons.  A fixture file's content is an input of the step that *)
(* opens it.                                                               *)
(***************************************************************************)
\* line 69: no --expected-stdout
SkipStdout ==
    /\ mode = "simple" /\ pc = "check_stdout"
    /\ ~args.expected_stdout_path
    /\ pc' = "check_stderr"
    /\ UNCHANGED <<cmpVars, embedVars, mode, args, procs, pipes, captured, fixture,
                   actual_stderr_json, did, printed, exit_code>>

\* lines 70-72
ReadExpectedStdout(f) ==
    /\ mode = "simple" /\ pc = "check_stdout"
    /\ args.expected_stdout_path
    /\ f.exists
    /\ fixture' = [fixture EXCEPT !.expected_stdout = f.text]
    /\ pc' = "compare_stdout"
    /\ UNCHANGED <<cmpVars, embedVars, mode, args, procs, pipes, captured, actual_stderr_json, did,
                   printed, exit_code>>

\* lines 73-78
ExpectedStdoutNotFound(f) ==
    /\ mode = "simple" /\ pc = "check_stdout"
    /\ args.expected_stdout_path
    /\ ~f.exists
    /\ Exit(1, "Error: Expected stdout file not found")
    /\ UNCHANGED <<cmpVars, embedVars, mode, args, procs, captured, fixture, actual_stderr_json, did>>

\* A mutant of line 80: the texts are never found different.
StdoutDiffers_Never == FALSE

\* line 80: result.stdout != expected_stdout, on the texts as they are
StdoutDiffers == captured.stdout # fixture.expected_stdout

\* A mutant of lines 80-86: the mismatch is printed and the run goes on.
CompareStdout_GoesOn ==
    /\ mode = "simple" /\ pc = "compare_stdout"
    /\ did' = Append(did, "compare_stdout")
    /\ printed' = IF StdoutDiffers
                  THEN Append(printed, "FAILED: Stdout did not match expected stdout.")
                  ELSE printed
    /\ pc' = "check_stderr"
    /\ UNCHANGED <<cmpVars, embedVars, mode, args, procs, pipes, captured, fixture,
                   actual_stderr_json, exit_code>>

\* lines 80-86
CompareStdout ==
    /\ mode = "simple" /\ pc = "compare_stdout"
    /\ did' = Append(did, "compare_stdout")
    /\ IF StdoutDiffers
       THEN Exit(1, "FAILED: Stdout did not match expected stdout.")
       ELSE pc' = "check_stderr" /\ UNCHANGED <<pipes, printed, exit_code>>
    /\ UNCHANGED <<cmpVars, embedVars, mode, args, procs, captured, fixture, actual_stderr_json>>

\* lines 89 / 171: no --expected-stderr
NoExpectedStderr(m) ==
    /\ mode = m /\ pc = "check_stderr"
    /\ ~args.expected_stderr_path
    /\ pc' = "passed"
    /\ UNCHANGED <<cmpVars, embedVars, mode, args, procs, pipes, captured, fixture,
                   actual_stderr_json, did, printed, exit_code>>

\* lines 90-92 / 172-174: json.load of the expected file
LoadExpectedStderr(m, f) ==
    /\ mode = m /\ pc = "check_stderr"
    /\ args.expected_stderr_path
    /\ f.exists /\ json_loads(f.text).ok
    /\ fixture' = [fixture EXCEPT !.expected_stderr_json = json_loads(f.text).doc]
    /\ did' = Append(did, "json.load")
    /\ pc' = "decode_actual"
    /\ UNCHANGED <<cmpVars, embedVars, mode, args, procs, pipes, captured, actual_stderr_json,
                   printed, exit_code>>

\* lines 93-98 / 175-180: FileNotFoundError or JSONDecodeError
ExpectedStderrUnreadable(m, f) ==
    /\ mode = m /\ pc = "check_stderr"
    /\ args.expected_stderr_path
    /\ ~f.exists \/ ~json_loads(f.text).ok
    /\ Exit(1, "Error reading or parsing expected JSON")
    /\ UNCHANGED <<cmpVars, embedVars, mode, args, procs, captured, fixture, actual_stderr_json, did>>

\* lines 100-108 / 182-187: json.loads of the captured stderr
DecodeActualStderr(m, msg) ==
    /\ mode = m /\ pc = "decode_actual"
    /\ did' = Append(did, "json.loads")
    /\ IF json_loads(captured.stderr).ok
       THEN /\ actual_stderr_json' = json_loads(captured.stderr).doc
            /\ pc' = "compare_json"
            /\ UNCHANGED <<pipes, printed, exit_code>>
       ELSE /\ Exit(1, msg)
            /\ UNCHANGED actual_stderr_json
    /\ UNCHANGED <<cmpVars, embedVars, mode, args, procs, captured, fixture>>

\* lines 110-120 / 189-199
CompareJson(m, msg) ==
    /\ mode = m /\ pc = "compare_json"
    /\ cmpExpected' = fixture.expected_stderr_json
    /\ cmpActual' = actual_stderr_json
    /\ cmpResult' = compare_json(fixture.expected_stderr_json, actual_stderr_json)
    /\ did' = Append(did, "compare_json")
    /\ IF cmpResult'.match
       THEN pc' = "passed" /\ UNCHANGED <<pipes, printed, exit_code>>
       ELSE Exit(1, msg)
    /\ UNCHANGED <<embedVars, mode, args, procs, captured, fixture, actual_stderr_json>>

\* lines 122-123 / 201-202
Passed(m) ==
    /\ mode = m /\ pc = "passed"
    /\ Exit(0, "PASSED")
    /\ UNCHANGED <<cmpVars, embedVars, mode, args, procs, captured, fixture, actual_stderr_json, did>>

SimpleNoExpectedStderr == NoExpectedStderr("simple")
SimpleLoadExpectedStderr == \E f \in JsonFiles : LoadExpectedStderr("simple", f)
SimpleExpectedStderrUnreadable == \E f \in JsonFiles : ExpectedStderrUnreadable("simple", f)
SimpleDecodeActualStderr == DecodeActualStderr("simple", "FAILED: Stderr was not valid JSON.")
SimpleCompareJson ==
    CompareJson("simple", "FAILED: Stderr JSON did not match expected JSON.")
SimplePassed == Passed("simple")

InteractiveNoExpectedStderr == NoExpectedStderr("interactive")
InteractiveLoadExpectedStderr == \E f \in JsonFiles : LoadExpectedStderr("interactive", f)
InteractiveExpectedStderrUnreadable ==
    \E f \in JsonFiles : ExpectedStderrUnreadable("interactive", f)
InteractiveDecodeActualStderr ==
    DecodeActualStderr("interactive", "FAILED: Interactor stderr was not valid JSON.")
InteractiveCompareJson ==
    CompareJson("interactive", "FAILED: Interactor stderr JSON did not match.")
InteractivePassed == Passed("interactive")

(***************************************************************************)
(* run_test of tests/interactor/0-guessing-number/run.py: the Solution is  *)
(* started first with stdin and stdout piped to the harness, the Judge     *)
(* second on the other ends of those two pipes with its stderr piped; a    *)
(* thread per process waits for it; both threads are joined; then the      *)
(* Judge's stderr is read and compared.                                    *)
(***************************************************************************)
\* str.rstrip(): the text without its trailing whitespace
RECURSIVE RStrip(_)
RStrip(text) ==
    IF text # <<>> /\ text[Len(text)] \in {"\n", " "}
    THEN RStrip(SubSeq(text, 1, Len(text) - 1))
    ELSE text

RECURSIVE LStrip(_)
LStrip(text) ==
    IF text # <<>> /\ text[1] \in {"\n", " "} THEN LStrip(Tail(text)) ELSE text

\* str.strip()
Strip(text) == LStrip(RStrip(text))

\* line 47: t_sol = SubprocessThread([BIN_STD], PIPE, PIPE, DEVNULL)
ThreadsPopenSol ==
    /\ mode = "threads" /\ pc = "t_sol"
    /\ procs' = Start("t_sol", args.solution_cmd)
    /\ pipes' = [pipes EXCEPT
                    !["stdin"] = [buf |-> <<>>, r |-> {"t_sol"}, w |-> {"harness"}],
                    !["stdout"] = [buf |-> <<>>, r |-> {"harness"}, w |-> {"t_sol"}]]
    /\ pc' = "t_judge"
    /\ UNCHANGED <<cmpVars, embedVars, mode, args, captured, fixture, actual_stderr_json, did,
                   printed, exit_code>>

\* line 48: t_judge = SubprocessThread([BIN_INTR, inf], t_sol.p.stdout, t_sol.p.stdin,
\* PIPE); the harness keeps t_sol.p.stdin and t_sol.p.stdout
ThreadsPopenJudge ==
    /\ mode = "threads" /\ pc = "t_judge"
    /\ procs' = Start("t_judge", args.command)
    /\ pipes' = [pipes EXCEPT
                    !["stdout"].r = @ \cup {"t_judge"},
                    !["stdin"].w = @ \cup {"t_judge"},
                    !["stderr"] = [buf |-> <<>>, r |-> {"harness"}, w |-> {"t_judge"}]]
    /\ pc' = "t_sol.join"
    /\ UNCHANGED <<cmpVars, embedVars, mode, args, captured, fixture, actual_stderr_json, did,
                   printed, exit_code>>

\* lines 50-52: the threads are started, each in p.wait(); t_sol.join() returns when
\* the Solution has exited
ThreadsJoinSol ==
    /\ mode = "threads" /\ pc = "t_sol.join"
    /\ Exited("t_sol")
    /\ pc' = "t_judge.join"
    /\ UNCHANGED <<cmpVars, embedVars, mode, args, procs, pipes, captured, fixture,
                   actual_stderr_json, did, printed, exit_code>>

\* line 53
ThreadsJoinJudge ==
    /\ mode = "threads" /\ pc = "t_judge.join"
    /\ Exited("t_judge")
    /\ pc' = "t_read"
    /\ UNCHANGED <<cmpVars, embedVars, mode, args, procs, pipes, captured, fixture,
                   actual_stderr_json, did, printed, exit_code>>

\* line 55: t_judge.p.stderr.read(), what the pipe holds ...
ThreadsRead ==
    /\ mode = "threads" /\ pc = "t_read"
    /\ pipes["stderr"].buf # <<>>
    /\ captured' = [captured EXCEPT !.stderr = @ \o pipes["stderr"].buf]
    /\ pipes' = [pipes EXCEPT !["stderr"].buf = <<>>]
    /\ UNCHANGED <<cmpVars, embedVars, mode, args, pc, procs, fixture, actual_stderr_json, did,
                   printed, exit_code>>

\* ... to end-of-stream
ThreadsReadEOF ==
    /\ mode = "threads" /\ pc = "t_read"
    /\ pipes["stderr"].buf = <<>> /\ pipes["stderr"].w = {}
    /\ pc' = "t_compare"
    /\ UNCHANGED <<cmpVars, embedVars, mode, args, procs, pipes, captured, fixture,
                   actual_stderr_json, did, printed, exit_code>>

\* lines 56-58 and the end of main: the stripped texts are compared; fail() exits
\* with -1, status 255
ThreadsCompare(f) ==
    /\ mode = "threads" /\ pc = "t_compare"
    /\ f.exists
    /\ did' = Append(did, "compare_result")
    /\ fixture' = [fixture EXCEPT !.expected_stdout = f.text]
    /\ IF Strip(captured.stderr) # Strip(f.text)
       THEN Exit(255, "Test failed.")
       ELSE /\ pc' = "exited"
            /\ exit_code' = 0
            /\ pipes' = CloseAll(pipes, "harness")
            /\ UNCHANGED printed
    /\ UNCHANGED <<cmpVars, embedVars, mode, args, procs, captured, actual_stderr_json>>

\* line 56: the expected file cannot be opened, FileNotFoundError is not caught
ThreadsExpectedNotFound(f) ==
    /\ mode = "threads" /\ pc = "t_compare"
    /\ ~f.exists
    /\ Exit(1, "Traceback: FileNotFoundError")
    /\ UNCHANGED <<cmpVars, embedVars, mode, args, procs, captured, fixture, actual_stderr_json, did>>

ResultTexts == {<<"1">>, <<"1", "\n">>, <<"true">>}
ResultFiles == {Missing} \cup {File(t) : t \in ResultTexts}

\* Judges that exit after a finite exchange, and what they leave on stderr: within
\* what a pipe holds, or one byte more
ThreadJudges ==
    {Cmd(k, 1, <<>>, e) : k \in {"writer", "asker"},
                          e \in {<<"1">>, <<"1", "\n">>, Bytes("x", Cap + 1)}}

\* Solutions that write nothing to their stderr
ThreadSolutions == {Cmd("echo", 0, <<>>, <<>>), Cmd("quit", 0, <<>>, <<>>)}

ThreadsNext ==
    \/ ThreadsPopenSol
    \/ ThreadsPopenJudge
    \/ ThreadsJoinSol
    \/ ThreadsJoinJudge
    \/ ThreadsRead
    \/ ThreadsReadEOF
    \/ \E f \in ResultFiles : ThreadsCompare(f)
    \/ \E f \in ResultFiles : ThreadsExpectedNotFound(f)

(***************************************************************************)
(* The runs.                                                               *)
(***************************************************************************)
Judges ==
    {Cmd("writer", n, <<>>, T_OK) : n \in 0..MaxN}
    \cup {Cmd("writer", 0, <<>>, e) : e \in {T_WA, T_Truncated, T_NaN, <<>>}}
    \cup {Cmd("asker", 1, <<>>, T_OK), Cmd("drainer", 0, <<>>, T_Extra)}

Solutions ==
    {Cmd("echo", 0, <<>>, <<>>), Cmd("quit", 0, <<>>, <<>>), NotFound}
    \cup {Cmd("noisy", k, <<>>, <<>>) : k \in 0..MaxK}

\* The pairs run against each other.  A Judge that reads to end-of-stream is paired
\* only with Solutions that do not wait for it in turn.
Duels ==
    {<<NotFound, Cmd("quit", 0, <<>>, <<>>)>>}
    \cup {d \in Judges \X Solutions :
            d[1].kind = "drainer" => d[2].kind = "quit"}

Commands ==
    {NotFound}
    \cup {Cmd(k, 0, s, e) : k \in {"print", "cat"}, s \in StdoutTexts, e \in StderrTexts}

Stdins == {<<"none", <<>>>>, <<"missing", <<>>>>, <<"file", <<>>>>,
           <<"file", Bytes("i", Cap + 1)>>}

InitRun ==
    /\ cmpExpected = NoDoc /\ cmpActual = NoDoc /\ cmpResult = NotCalled
    /\ procs = [p \in Names |-> NoProc]
    /\ pipes = [n \in PipeNames |-> NoPipe]
    /\ captured = [input |-> <<>>, stdout |-> <<>>, stderr |-> <<>>, sol_stderr |-> <<>>]
    /\ fixture = [expected_stdout |-> <<>>, expected_stderr_json |-> NoDoc]
    /\ actual_stderr_json = NoDoc
    /\ did = <<>>
    /\ printed = <<>>
    /\ exit_code = -1
    /\ EmbedIdle

\* main(), lines 240-265
Init ==
    /\ InitRun
    /\ \/ /\ mode = "simple"
          /\ pc = "open_stdin"
          /\ \E c \in Commands, i \in Stdins, o \in BOOLEAN, e \in BOOLEAN :
                args = [command |-> c, solution_cmd |-> NotFound,
                        stdin_path |-> i[1], stdin_content |-> i[2],
                        expected_stdout_path |-> o, expected_stderr_path |-> e]
       \/ /\ mode = "threads"
          /\ pc = "t_sol"
          /\ \E j \in ThreadJudges, sol \in ThreadSolutions :
                args = [command |-> j, solution_cmd |-> sol,
                        stdin_path |-> "none", stdin_content |-> <<>>,
                        expected_stdout_path |-> FALSE, expected_stderr_path |-> TRUE]
       \/ /\ mode = "interactive"
          /\ pc = "Popen_interactor"
          /\ \E d \in Duels, e \in BOOLEAN :
                args = [command |-> d[1], solution_cmd |-> d[2],
                        stdin_path |-> "none", stdin_content |-> <<>>,
                        expected_stdout_path |-> FALSE, expected_stderr_path |-> e]

HarnessNext ==
    \/ PopenInteractor
    \/ PopenInteractorNotFound
    \/ PopenSolution
    \/ PopenSolutionNotFound
    \/ CloseInteractorStdout
    \/ CommunicateBegin
    \/ SelectWrite
    \/ SelectWriteBroken
    \/ \E n \in {"stdout", "stderr"} : SelectRead(n)
    \/ \E n \in {"stdout", "stderr"} : SelectEOF(n)
    \/ SelectDone
    \/ Wait
    \/ SolutionRead
    \/ SolutionEOF
    \/ SolutionWait
    \/ OpenStdin
    \/ OpenStdinNotFound
    \/ Run
    \/ RunNotFound
    \/ SkipStdout
    \/ \E f \in StdoutFiles : ReadExpectedStdout(f)
    \/ \E f \in StdoutFiles : ExpectedStdoutNotFound(f)
    \/ CompareStdout
    \/ SimpleNoExpectedStderr
    \/ SimpleLoadExpectedStderr
    \/ SimpleExpectedStderrUnreadable
    \/ SimpleDecodeActualStderr
    \/ SimpleCompareJson
    \/ SimplePassed
    \/ InteractiveNoExpectedStderr
    \/ InteractiveLoadExpectedStderr
    \/ InteractiveExpectedStderrUnreadable
    \/ InteractiveDecodeActualStderr
    \/ InteractiveCompareJson
    \/ InteractivePassed
    \/ ThreadsNext

Next == HarnessNext \/ \E p \in Names : ProcNext(p)

Spec == Init /\ [][Next]_vars

\* The operating system runs every process that can take a step, the harness
\* included.
FairSpec ==
    /\ Spec
    /\ WF_vars(HarnessNext)
    /\ \A p \in Names : WF_vars(ProcNext(p))

(***************************************************************************)
(* Claims about the runs.                                                  *)
(***************************************************************************)
Ran(s) == {s[i] : i \in DOMAIN s}

Finished == pc = "exited"

\* the harness has printed PASSED or FAILED
VerdictPrinted ==
    \E i \in DOMAIN printed :
        printed[i] \in {"PASSED",
                        "FAILED: Stdout did not match expected stdout.",
                        "FAILED: Stderr was not valid JSON.",
                        "FAILED: Stderr JSON did not match expected JSON.",
                        "FAILED: Interactor stderr was not valid JSON.",
                        "FAILED: Interactor stderr JSON did not match."}

AllExited == \A p \in Names : Spawned(p) => Exited(p)

\* the pipe is empty and no write end of it is open: its reader has all of it
AtEndOfStream(n) == pipes[n].buf = <<>> /\ pipes[n].w = {}

\* A Judge that asks and waits for the answer against a Solution that writes to its
\* stderr before it answers: each ends once the streams it writes are drained.
AskerNoisy ==
    /\ mode = "interactive"
    /\ args.command.found /\ args.command.kind = "asker"
    /\ args.solution_cmd.found /\ args.solution_cmd.kind = "noisy"

\* C1: for a Judge and a Solution that each terminate when the streams they write
\* are drained, whatever the Solution writes to its stderr, the run never reaches a
\* state in which nothing can move before the harness has finished.
C1_NoDeadlockOnSolutionStderr == AskerNoisy => (Finished \/ ENABLED Next)

\* A Judge that writes n bytes and exits without reading, against an echoing
\* Solution.
WriterEcho ==
    /\ mode = "interactive"
    /\ args.command.found /\ args.command.kind = "writer"
    /\ args.solution_cmd.found /\ args.solution_cmd.kind = "echo"

\* C2 (as stated): for every n, the writer/echo run never stops before the harness
\* has finished, and a Solution that has seen end-of-stream has read n bytes.
C2_DuelLiveness ==
    WriterEcho =>
        /\ Finished \/ ENABLED Next
        /\ procs["solution"].eof => procs["solution"].nread = args.command.n

\* C2 (as the code has it): when n is no more than the two connecting pipes hold
\* together, the writer/echo run finishes, and a Solution that has seen
\* end-of-stream has read n bytes.
C2_DuelLivenessWithinCapacity ==
    /\ (WriterEcho /\ args.command.n <= 2 * Cap) ~> Finished
    /\ [](WriterEcho /\ args.command.n <= 2 * Cap /\ procs["solution"].eof
            => procs["solution"].nread = args.command.n)

\* a finished run of more bytes than one pipe holds, all of them read by the
\* Solution before its end-of-stream
C2_Witness ==
    /\ WriterEcho /\ Finished
    /\ args.command.n > Cap /\ args.command.n <= 2 * Cap
    /\ procs["solution"].eof /\ procs["solution"].nread = args.command.n

BeforeWait == pc \in {"Popen_interactor", "Popen_solution", "close_stdout", "communicate"}

\* C3 (as stated): once both processes are wired and before the first wait begins,
\* the harness holds no end of either pipe between Judge and Solution.
C3_NoHandleAfterWiring ==
    mode = "interactive" /\ pc = "communicate" =>
        \A n \in {"stdin", "stdout"} : ~Holds("harness", n, "r") /\ ~Holds("harness", n, "w")

C3_Handles ==
    /\ ~Holds("harness", "stdout", "w")
    /\ ~Holds("harness", "stdin", "r")
    /\ pc \notin {"Popen_interactor", "Popen_solution", "close_stdout"}
           => ~Holds("harness", "stdout", "r")
    /\ ~BeforeWait => ~Holds("harness", "stdin", "w")
    /\ Exited("interactor") /\ Running("solution") /\ Wants("solution") = "read"
       /\ pipes["stdout"].buf = <<>>
           => ENABLED ProcReadEOF("solution")

\* C3 (as the code has it): the harness never holds a write end of the pipe feeding
\* the Solution's stdin and gives up its read end of it before the first wait; its
\* write end of the pipe feeding the Judge's stdin is open until the first wait
\* begins and closed from then on; the bytes in the two pipes are moved by the Judge
\* and the Solution only; and once the Judge has exited, a Solution reading the
\* emptied pipe sees end-of-stream.
C3_HandlesRelinquished ==
    /\ [](mode = "interactive" => C3_Handles)
    /\ [][mode = "interactive"
          /\ (pipes'["stdin"].buf # pipes["stdin"].buf
              \/ pipes'["stdout"].buf # pipes["stdout"].buf)
          => \E p \in {"interactor", "solution"} : ProcNext(p)]_vars

\* the Solution has seen end-of-stream after the Judge's exit, the harness in its
\* first wait
C3_Witness ==
    /\ mode = "interactive" /\ pc \in {"select", "wait"}
    /\ Exited("interactor") /\ procs["solution"].eof
    /\ args.command.n > 0

\* C4: a comparison is made only when every spawned process has exited and the
\* compared stream is at its end; in duel mode a verdict is printed only when both
\* processes have exited, and the Judge's whole stderr is what compare_json gets.
C4_ComparedAfterCompletion ==
    /\ pc = "compare_stdout" \/ "compare_stdout" \in Ran(did)
           => AllExited /\ AtEndOfStream("stdout")
    /\ pc \in {"decode_actual", "compare_json"} \/ "compare_json" \in Ran(did)
           => AllExited /\ AtEndOfStream("stderr")
    /\ "compare_json" \in Ran(did)
           => /\ captured.stderr = args.command.err
              /\ cmpActual = json_loads(args.command.err).doc
    /\ mode = "interactive" /\ VerdictPrinted
           => Exited("interactor") /\ Exited("solution")

\* a duel compared after a Judge that exits before its Solution
C4_Witness ==
    /\ mode = "interactive" /\ "compare_json" \in Ran(did)
    /\ args.solution_cmd.kind = "echo"
    /\ procs["solution"].eof

\* C7: the stdout comparison of simple mode passes exactly when the captured stdout
\* and the expected stdout are equal once trailing whitespace is stripped from both.
C7_StdoutComparedStripped ==
    mode = "simple" /\ "compare_stdout" \in Ran(did) =>
        ("FAILED: Stdout did not match expected stdout." \notin Ran(printed)
            <=> RStrip(captured.stdout) = RStrip(fixture.expected_stdout))

(***************************************************************************)
(* Claims about the outcome of a run.                                      *)
(***************************************************************************)
\* every command of the run can be started, and the stdin file, if any, read
LaunchOK ==
    IF mode = "simple"
    THEN args.stdin_path # "missing" /\ args.command.found
    ELSE args.command.found /\ args.solution_cmd.found

LaunchErrors == {"Error: Stdin file not found", "Error: Command not found",
                 "Error executing command"}
FixtureErrors == {"Error: Expected stdout file not found",
                  "Error reading or parsing expected JSON"}

StdoutRequested == mode = "simple" /\ args.expected_stdout_path
StdoutMismatch == "compare_stdout" \in Ran(did) /\ captured.stdout # fixture.expected_stdout

\* C11: PASSED is printed only by a run that ends with status 0; a run that ends,
\* ends with status 0 having printed PASSED or with status 1 never having printed
\* it; and status 0 is reached only without a launch, fixture or mismatch error.
C11_TwoOutcomes ==
    /\ "PASSED" \in Ran(printed) => Finished /\ exit_code = 0
    /\ Finished /\ mode \in {"simple", "interactive"} =>
        /\ exit_code \in {0, 1}
        /\ exit_code = 0 <=> "PASSED" \in Ran(printed)
        /\ exit_code = 0 <=>
              /\ LaunchOK
              /\ Ran(printed) \cap (LaunchErrors \cup FixtureErrors) = {}
              /\ StdoutRequested =>
                     "compare_stdout" \in Ran(did)
                     /\ captured.stdout = fixture.expected_stdout
              /\ args.expected_stderr_path =>
                     "compare_json" \in Ran(did) /\ cmpResult.match

\* a simple run with both fixtures that passed
C11_Witness ==
    /\ Finished /\ exit_code = 0 /\ mode = "simple"
    /\ args.expected_stdout_path /\ args.expected_stderr_path
    /\ captured.stdout # <<>>

\* C12: a run that ends on a launch or fixture error has made no comparison.
C12_NoComparisonBeforeError ==
    Finished /\ Ran(printed) \cap (LaunchErrors \cup FixtureErrors) # {}
        => Ran(did) \cap {"compare_stdout", "compare_json"} = {}

\* C13: in a simple run with both fixtures, nothing of the diagnostic comparison
\* happens before the stdout comparison has passed, and a stdout mismatch ends the
\* run naming stdout, the captured stderr neither decoded nor compared.
C13_StdoutBeforeDiagnostic ==
    mode = "simple" /\ args.expected_stdout_path /\ args.expected_stderr_path =>
        /\ Ran(did) \cap {"json.load", "json.loads", "compare_json"} # {}
               => did[1] = "compare_stdout" /\ captured.stdout = fixture.expected_stdout
        /\ pc \in {"check_stderr", "decode_actual", "compare_json", "passed"}
               => did[1] = "compare_stdout" /\ captured.stdout = fixture.expected_stdout
        /\ StdoutMismatch
               => /\ Finished /\ exit_code = 1
                  /\ printed = <<"FAILED: Stdout did not match expected stdout.">>
                  /\ did = <<"compare_stdout">>
                  /\ ~Called

\* both comparisons made, in that order
C13_Witness ==
    /\ mode = "simple" /\ args.expected_stdout_path /\ args.expected_stderr_path
    /\ did = <<"compare_stdout", "json.load", "json.loads", "compare_json">>

\* C14: when the harness of a duel has exited, every process it spawned has
\* exited, and no more than two processes are ever alive.
C14_AllTornDown ==
    mode = "interactive" =>
        /\ Finished => AllExited
        /\ Cardinality({p \in Names : Running(p)}) <= 2

\* A Judge that reads its stdin to end-of-stream and then writes its verdict,
\* against a Solution that exits at once.
DrainerQuit ==
    /\ mode = "interactive"
    /\ args.command.found /\ args.command.kind = "drainer"
    /\ args.solution_cmd.found /\ args.solution_cmd.kind = "quit"

\* C18: the harness holds no write end of the Judge's stdin pipe while it waits
\* for the Judge, and a Judge blocked reading its stdin after the Solution's exit
\* sees end-of-stream, writes its verdict and exits, the run going on to the
\* comparison with the whole verdict captured.
C18_JudgeSeesEndOfStream ==
    /\ [](mode = "interactive" /\ pc \in {"select", "wait"}
             => ~Holds("harness", "stdin", "w"))
    /\ DrainerQuit => <>(/\ pc = "check_stderr"
                         /\ procs["interactor"].eof /\ Exited("interactor")
                         /\ captured.stderr = args.command.err)

\* the verdict of a Judge that saw end-of-stream after its Solution's exit, compared
C18_Witness ==
    /\ DrainerQuit /\ "compare_json" \in Ran(did)
    /\ procs["interactor"].eof
    /\ cmpActual = json_loads(args.command.err).doc

AllLaunched ==
    IF mode = "simple" THEN Spawned("command")
    ELSE Spawned("interactor") /\ Spawned("solution")

\* what a finished run that met no launch or fixture error prints and exits with,
\* from the captured streams and the fixtures alone
VerdictOf ==
    LET decoded == json_loads(captured.stderr)
        simple == mode = "simple"
    IN  IF StdoutRequested /\ captured.stdout # fixture.expected_stdout
        THEN <<1, "FAILED: Stdout did not match expected stdout.">>
        ELSE IF ~args.expected_stderr_path THEN <<0, "PASSED">>
        ELSE IF ~decoded.ok
             THEN <<1, IF simple THEN "FAILED: Stderr was not valid JSON."
                       ELSE "FAILED: Interactor stderr was not valid JSON.">>
        ELSE IF ~compare_json(fixture.expected_stderr_json, decoded.doc).match
             THEN <<1, IF simple THEN "FAILED: Stderr JSON did not match expected JSON."
                       ELSE "FAILED: Interactor stderr JSON did not match.">>
        ELSE <<0, "PASSED">>

\* C19: what a finished run prints and exits with is decided by the captured
\* streams and the fixtures, whatever the exit statuses of its processes; a run
\* whose commands were started and which has no expected fixture ends in PASSED.
C19_VerdictIgnoresExitStatus ==
    Finished /\ mode \in {"simple", "interactive"} =>
        /\ Ran(printed) \cap (LaunchErrors \cup FixtureErrors) = {}
               => <<exit_code, printed>> = <<VerdictOf[1], <<VerdictOf[2]>>>>
        /\ AllLaunched /\ ~StdoutRequested /\ ~args.expected_stderr_path
               => exit_code = 0 /\ printed = <<"PASSED">>

\* a duel that passed although its Solution ended with a non-zero status
C19_Witness ==
    /\ Finished /\ printed = <<"PASSED">>
    /\ mode = "interactive" /\ args.expected_stderr_path
    /\ procs["solution"].returncode # 0
    /\ procs["interactor"].returncode # 0

(***************************************************************************)
(* compare_json as a relation on documents.                                *)
(***************************************************************************)
\* C20: whenever compare_json(A, B) succeeds, every document C for which
\* compare_json(B, C) succeeds has compare_json(A, C) succeed.
C20_Transitive ==
    Called /\ cmpResult.match =>
        \A c \in Docs :
            compare_json(cmpActual, c).match => compare_json(cmpExpected, c).match

\* a chain of three different documents
C20_Witness ==
    /\ Called /\ cmpResult.match
    /\ cmpExpected # cmpActual
    /\ \E c \in Docs : /\ c \notin {cmpExpected, cmpActual}
                       /\ compare_json(cmpActual, c).match
                       /\ ~compare_json(c, cmpActual).match
                       /\ ~compare_json(cmpActual, cmpExpected).match

(***************************************************************************)
(* Claims about run_test of run.py.                                        *)
(***************************************************************************)
\* C17: with a Judge that exits after a finite exchange and a Solution that exits
\* at end-of-stream on its stdin, the harness, once both processes are started,
\* holds no end of the two pipes between them, and the run never stops before the
\* harness has finished.
C17_ThreadDuelDoesNotHang ==
    mode = "threads" =>
        /\ pc \notin {"t_sol", "t_judge"} =>
               ~Holds("harness", "stdin", "w") /\ ~Holds("harness", "stdout", "r")
        /\ Finished \/ ENABLED Next

(***************************************************************************)
(* scripts/embed.py.  A file is a sequence of lines; a line is plain text, *)
(* text with an IWYU pragma, an ignore-start marker, an ignore-end marker, *)
(* or an #include "h" directive.                                           *)
(***************************************************************************)
Text == [k |-> "text", h |-> ""]
Pragma == [k |-> "pragma", h |-> ""]
IgnoreStart == [k |-> "start", h |-> ""]
IgnoreEnd == [k |-> "end", h |-> ""]
Include(h) == [k |-> "include", h |-> h]

\* line 12
IGNORE_HEADERS == {"regex.h", "fmt/base.h", "fmt/core.h"}

Headers == {"main.h", "a.h", "./a.h", "b.h", "regex.h", "nofile.h"}
Lines == {Text, Pragma, IgnoreStart, IgnoreEnd} \cup {Include(h) : h \in Headers}

\* line 62: (include_path / header_name).resolve()
Resolve(h) == IF h = "./a.h" THEN "a.h" ELSE h

\* what process_file appends: line i of a file (with its pragma removed, line 49),
\* or one of the two markers around an embedded file
Line(f, i) == [k |-> IF fs[f][i].k = "pragma" THEN "stripped" ELSE "line",
               file |-> f, i |-> i, h |-> ""]
StartEmbedded(h) == [k |-> "Start embedded", file |-> "", i |-> 0, h |-> h]
EndEmbedded(h) == [k |-> "End embedded", file |-> "", i |-> 0, h |-> h]

\* the locals of one call of process_file
Frame(f) == [file_path |-> f, i |-> 1, in_ignore_block |-> FALSE,
             output_lines |-> <<>>, header_name |-> ""]

Top == stack[Len(stack)]
SetTop(frame) == [stack EXCEPT ![Len(stack)] = frame]
AtLine == epc = "run" /\ stack # <<>> /\ Top.i <= Len(fs[Top.file_path])
CurLine == fs[Top.file_path][Top.i]
Advance(frame) == [frame EXCEPT !.i = @ + 1]
Emit(frame, x) == [frame EXCEPT !.output_lines = Append(@, x)]

\* lines 93-97 and 21-33: main calls process_file on the main header
EmbedMain ==
    /\ epc = "main"
    /\ "main.h" \in DOMAIN fs
    /\ processed_files' = {"main.h"}
    /\ reads' = <<"main.h">>
    /\ stack' = <<Frame("main.h")>>
    /\ epc' = "run"
    /\ UNCHANGED <<cmpVars, runVars, fs, final_lines>>

\* lines 26-30: the main header does not exist
EmbedMainNotFound ==
    /\ epc = "main"
    /\ "main.h" \notin DOMAIN fs
    /\ processed_files' = {"main.h"}
    /\ epc' = "error"
    /\ UNCHANGED <<cmpVars, runVars, fs, stack, reads, final_lines>>

\* lines 37-39
EmbedIgnoreStart ==
    /\ AtLine /\ CurLine.k = "start"
    /\ stack' = SetTop(Advance([Top EXCEPT !.in_ignore_block = TRUE]))
    /\ UNCHANGED <<cmpVars, runVars, fs, processed_files, reads, final_lines, epc>>

\* lines 41-43
EmbedIgnoreEnd ==
    /\ AtLine /\ CurLine.k = "end"
    /\ stack' = SetTop(Advance([Top EXCEPT !.in_ignore_block = FALSE]))
    /\ UNCHANGED <<cmpVars, runVars, fs, processed_files, reads, final_lines, epc>>

\* lines 45-46
EmbedSkipIgnored ==
    /\ AtLine /\ CurLine.k \notin {"start", "end"}
    /\ Top.in_ignore_block
    /\ stack' = SetTop(Advance(Top))
    /\ UNCHANGED <<cmpVars, runVars, fs, processed_files, reads, final_lines, epc>>

\* lines 49, 52, 79-80: a line without an include directive
EmbedKeepLine ==
    /\ AtLine /\ CurLine.k \in {"text", "pragma"}
    /\ ~Top.in_ignore_block
    /\ stack' = SetTop(Advance(Emit(Top, Line(Top.file_path, Top.i))))
    /\ UNCHANGED <<cmpVars, runVars, fs, processed_files, reads, final_lines, epc>>

\* lines 55-57: an include of IGNORE_HEADERS is kept; lines 60-63, 73-78: so is
\* one found in no include path
EmbedKeepInclude ==
    /\ AtLine /\ CurLine.k = "include"
    /\ ~Top.in_ignore_block
    /\ CurLine.h \in IGNORE_HEADERS \/ Resolve(CurLine.h) \notin DOMAIN fs
    /\ stack' = SetTop(Advance(Emit(Top, Line(Top.file_path, Top.i))))
    /\ UNCHANGED <<cmpVars, runVars, fs, processed_files, reads, final_lines, epc>>

\* A mutant of line 21: only a file whose call is still active counts as processed.
AlreadyProcessed_OnlyActive(f) == \E n \in DOMAIN stack : stack[n].file_path = f

\* line 21
AlreadyProcessed(f) == f \in processed_files

\* lines 65-71 with lines 21-22: the file was processed before, the call returns ""
\* and only the two markers are appended
EmbedIncludeProcessed ==
    /\ AtLine /\ CurLine.k = "include"
    /\ ~Top.in_ignore_block
    /\ CurLine.h \notin IGNORE_HEADERS /\ Resolve(CurLine.h) \in DOMAIN fs
    /\ AlreadyProcessed(Resolve(CurLine.h))
    /\ stack' = SetTop(Advance(Emit(Emit(Top, StartEmbedded(CurLine.h)),
                                    EndEmbedded(CurLine.h))))
    /\ UNCHANGED <<cmpVars, runVars, fs, processed_files, reads, final_lines, epc>>

\* lines 65-66 with lines 24-33: the start marker is appended and process_file is
\* entered for the included file
EmbedIncludeRecurse ==
    /\ AtLine /\ CurLine.k = "include"
    /\ ~Top.in_ignore_block
    /\ CurLine.h \notin IGNORE_HEADERS /\ Resolve(CurLine.h) \in DOMAIN fs
    /\ ~AlreadyProcessed(Resolve(CurLine.h))
    /\ processed_files' = processed_files \cup {Resolve(CurLine.h)}
    /\ reads' = Append(reads, Resolve(CurLine.h))
    /\ stack' = Append(SetTop([Emit(Top, StartEmbedded(CurLine.h))
                                 EXCEPT !.header_name = CurLine.h]),
                       Frame(Resolve(CurLine.h)))
    /\ UNCHANGED <<cmpVars, runVars, fs, final_lines, epc>>

\* A mutant of the return: the includer goes on with the ignore state of the
\* included file.
Resume_LeaksIgnore(caller, callee) ==
    Advance(Emit([caller EXCEPT !.output_lines = @ \o callee.output_lines,
                                !.in_ignore_block = callee.in_ignore_block],
                 EndEmbedded(caller.header_name)))

\* lines 66-69: the includer appends what the call returned, then the end marker
Resume(caller, callee) ==
    Advance(Emit([caller EXCEPT !.output_lines = @ \o callee.output_lines],
                 EndEmbedded(caller.header_name)))

\* line 82 of an included file
EmbedReturn ==
    /\ epc = "run" /\ Len(stack) > 1
    /\ Top.i > Len(fs[Top.file_path])
    /\ stack' = [n \in 1..(Len(stack) - 1) |->
                    IF n = Len(stack) - 1 THEN Resume(stack[n], Top) ELSE stack[n]]
    /\ UNCHANGED <<cmpVars, runVars, fs, processed_files, reads, final_lines, epc>>

\* line 82 of the main header, lines 97-99
EmbedWrite ==
    /\ epc = "run" /\ Len(stack) = 1
    /\ Top.i > Len(fs[Top.file_path])
    /\ final_lines' = Top.output_lines
    /\ stack' = <<>>
    /\ epc' = "done"
    /\ UNCHANGED <<cmpVars, runVars, fs, processed_files, reads>>

\* The file systems: every main header of up to MaxLen lines (or none), with a few
\* a.h (plain, self-including, including back, with an unclosed ignore region,
\* including b.h) and b.h (none, ignoring an include of a.h, including a.h, closing
\* a region it never opened).
MainContents == SeqsUpTo(Lines, MaxLen)
AContents == {<<Text>>, <<Include("a.h")>>, <<Include("main.h"), Text>>,
              <<IgnoreStart, Text>>, <<Include("b.h"), Pragma>>}
BContents == {<<IgnoreStart, Include("a.h")>>, <<Include("./a.h"), Text>>,
              <<Text, IgnoreEnd>>}

FileSystems ==
    {[f \in {"a.h"} |-> a] : a \in AContents}
    \cup {[f \in {"main.h", "a.h"} |-> IF f = "main.h" THEN m ELSE a] :
            m \in MainContents, a \in AContents}
    \cup {[f \in {"main.h", "a.h", "b.h"} |->
              IF f = "main.h" THEN m ELSE IF f = "a.h" THEN a ELSE b] :
            m \in MainContents, a \in AContents, b \in BContents}

InitEmbed ==
    /\ cmpExpected = NoDoc /\ cmpActual = NoDoc /\ cmpResult = NotCalled
    /\ RunIdle
    /\ fs \in FileSystems
    /\ stack = <<>>
    /\ processed_files = {}
    /\ reads = <<>>
    /\ final_lines = <<>>
    /\ epc = "main"

NextEmbed ==
    \/ EmbedMain
    \/ EmbedMainNotFound
    \/ EmbedIgnoreStart
    \/ EmbedIgnoreEnd
    \/ EmbedSkipIgnored
    \/ EmbedKeepLine
    \/ EmbedKeepInclude
    \/ EmbedIncludeProcessed
    \/ EmbedIncludeRecurse
    \/ EmbedReturn
    \/ EmbedWrite

SpecEmbed == InitEmbed /\ [][NextEmbed]_vars

\* the interpreter goes on while the program has a next statement
FairSpecEmbed == SpecEmbed /\ WF_vars(NextEmbed)

(***************************************************************************)
(* Claims about embed.py.                                                  *)
(***************************************************************************)
EmbedEnded == epc \in {"done", "error"}

\* how often x occurs in a sequence
Occ(seq, x) == Cardinality({n \in DOMAIN seq : seq[n] = x})

\* the sequences of appended lines there are: one per active call, and the output
Outputs == {final_lines} \cup {stack[n].output_lines : n \in DOMAIN stack}
Emitted == UNION {Ran(o) : o \in Outputs}
IsContent(x) == x.k \in {"line", "stripped"}

\* C15: flattening ends, whatever the include graph; no file is read twice, and no
\* line of a file's content is appended twice.
C15_TerminatesExpandingOnce ==
    /\ <>EmbedEnded
    /\ [](/\ \A m, n \in DOMAIN reads : reads[m] = reads[n] => m = n
          /\ \A x \in Emitted : IsContent(x) =>
                /\ \A o \in Outputs : Occ(o, x) <= 1
                /\ Cardinality({o \in Outputs : x \in Ran(o)}) = 1)

\* a finished run over a cycle (a.h includes main.h back) in which an include of an
\* already processed, non-empty file left only its two markers
C15_Witness ==
    /\ epc = "done"
    /\ fs["a.h"] = <<Include("main.h"), Text>>
    /\ Line("a.h", 2) \in Ran(final_lines)
    /\ \E n \in 1..(Len(final_lines) - 1) :
          /\ final_lines[n] = StartEmbedded("main.h")
          /\ final_lines[n + 1] = EndEmbedded("main.h")

\* line i of a file lies in an ignore region: from a start marker line up to and
\* including the next end marker line
Suppressed(content, i) ==
    \/ content[i].k = "end"
    \/ \E b \in 1..i : /\ content[b].k = "start"
                       /\ \A e \in b..(i - 1) : content[e].k # "end"

Expandable(line) ==
    line.k = "include" /\ line.h \notin IGNORE_HEADERS /\ Resolve(line.h) \in DOMAIN fs

\* C16: no line of an ignore region is appended; a file is processed only through
\* an include outside every ignore region; and when the run is done, every line
\* outside the ignore regions of a processed file has been kept or, an include of
\* an existing file, has had its file processed, whatever ignore state an included
\* file ended in.
C16_IgnoreRegions ==
    /\ \A x \in Emitted : IsContent(x) => ~Suppressed(fs[x.file], x.i)
    /\ \A f \in processed_files \ {"main.h"} :
          \E g \in processed_files \cap DOMAIN fs :
             \E i \in DOMAIN fs[g] :
                /\ Expandable(fs[g][i]) /\ Resolve(fs[g][i].h) = f
                /\ ~Suppressed(fs[g], i)
    /\ epc = "done" =>
          \A g \in processed_files :
             \A i \in DOMAIN fs[g] :
                ~Suppressed(fs[g], i) =>
                    IF Expandable(fs[g][i])
                    THEN Resolve(fs[g][i].h) \in processed_files
                    ELSE Line(g, i) \in Ran(final_lines)

\* b.h ignores its include of a.h and ends inside its ignore region; main.h, which
\* included b.h, then includes a.h, and a.h is expanded
C16_Witness ==
    /\ epc = "done"
    /\ fs["main.h"] = <<Include("b.h"), Include("a.h")>>
    /\ "b.h" \in DOMAIN fs /\ fs["b.h"] = <<IgnoreStart, Include("a.h")>>
    /\ fs["a.h"] = <<Text>>
    /\ final_lines = <<StartEmbedded("b.h"), EndEmbedded("b.h"),
                       StartEmbedded("a.h"), Line("a.h", 1), EndEmbedded("a.h")>>

=============================================================================
